---- MODULE Spec2Model ----
(***************************************************************************)
(* Item-to-item similarity (train/itemCFI2I.py).                           *)
(*                                                                         *)
(* Spec     one call of ItemCFI2I.calc_similarity on one group, one step   *)
(*          per index build, per pair test and per top-n update.           *)
(* SpecRun  ItemCFI2I.run: groupby, the worker pool of pool.map, and the   *)
(*          writes of output_result, run twice on the same configuration.  *)
(*                                                                         *)
(* Scores are exact: a score is <<n, d, r>> and stands for n/d (r = 1) or  *)
(* n/sqrt(d) (r = 2).  The floats of the program round these values.       *)
(***************************************************************************)
EXTENDS Integers, Sequences, FiniteSets, TLC

\* Bounds of the model.
NumUsers == 3
NumItems == 3
MaxTopN == 2
MaxAlpha == 2
NumGroups == 2
RunUsers == 2
RunItems == 2
PoolSize == 2
MaxCatalogue == 3
MaxNeighbours == 4
MaxLen == 2

Users == 1..NumUsers
Items == 1..NumItems

\* argparse choices of --sim_type, and one name outside them
SimTypes == {"jaccard", "cosine", "wb_cosine", "swing"}
Unsupported == "pearson"

VARIABLES
    sim_type, top_n, sim_params,      \* self.sim_type, self.top_n, self.sim_params
    group,                            \* calc_similarity: the rows <<user_id, item_id>> of the group
    pc,                               \* calc_similarity: position in the function
    user_items, item_users, items,    \* calc_similarity: the co-occurrence index
    i, j, sim,                        \* calc_similarity: loop indices and the score of the pair
    item_pairs,                       \* calc_similarity: anchor -> heap of <<score, neighbour>>
    visits, offers,                   \* history: pairs visited; offers made, each with
                                      \* the list's state before (full) and after (kept)
    data,                             \* run: group_id -> rows of the loaded file
    phase, task, results,             \* run: position, state of each pool task, pool.map result
    output,                           \* run: the data frames appended to self.output
    finished,                         \* history: the pool tasks in the order they ended
    round, first_data, first_phase, first_results, first_output,  \* the first of the two runs
    index_type, normalize, threshold, \* ItemEmbeddingI2I: self.index_type, self.normalize, self.threshold
    snapshots,                        \* ItemEmbeddingI2I: the files of embed_path, sorted by name
    ids, embeddings,                  \* ItemEmbeddingI2I: what load_data returned
    scores, indices                   \* ItemEmbeddingI2I: what index.search returned

vars == <<sim_type, top_n, sim_params, group, pc, user_items, item_users, items,
          i, j, sim, item_pairs, visits, offers, data, phase, task, results,
          output, finished, round, first_data, first_phase, first_results, first_output,
          index_type, normalize, threshold, snapshots, ids, embeddings, scores, indices>>

calcVars == <<group, pc, user_items, item_users, items, i, j, sim, item_pairs,
              visits, offers>>
runVars == <<data, phase, task, results, output, finished, round, first_data, first_phase,
             first_results, first_output>>
cfgVars == <<sim_type, top_n, sim_params>>
embVars == <<index_type, normalize, threshold, snapshots, ids, embeddings, scores, indices>>

----------------------------------------------------------------------------
(* Scores *)

RECURSIVE GCD(_, _)
GCD(a, b) == IF b = 0 THEN a ELSE GCD(b, a % b)

\* the quotient n / d of two integers, d > 0
Rat(n, d) == LET g == GCD(n, d) IN <<n \div g, d \div g, 1>>

\* n / sqrt(d)
Root(n, d) == <<n, d, 2>>

Zero == <<0, 1, 1>>

Min(a, b) == IF a < b THEN a ELSE b

\* a + b for quotients
RatAdd(a, b) == Rat(a[1] * b[2] + b[1] * a[2], a[2] * b[2])

Sq(s) == IF s[3] = 1 THEN <<s[1] * s[1], s[2] * s[2]>> ELSE <<s[1] * s[1], s[2]>>

\* a < b and a == b of two scores of one run (all >= 0)
ScoreLess(a, b) == Sq(a)[1] * Sq(b)[2] < Sq(b)[1] * Sq(a)[2]
ScoreEq(a, b) == Sq(a)[1] * Sq(b)[2] = Sq(b)[1] * Sq(a)[2]
ScoreLeq(a, b) == ScoreLess(a, b) \/ ScoreEq(a, b)

\* an empty user_id or item_id cell of the file: pandas.read_csv leaves NaN there
NaN == 0

\* (sim, item) < (sim', item') of Python tuples: the first differing component
\* decides; NaN is neither less nor greater than any number
TupleLess(e, f) ==
    IF ScoreEq(e[1], f[1]) THEN e[2] # NaN /\ f[2] # NaN /\ e[2] < f[2]
    ELSE ScoreLess(e[1], f[1])

----------------------------------------------------------------------------
(* heapq on a list, kept as a sequence (index 1 is heap[0]) *)

RECURSIVE _siftdown(_, _, _, _)
_siftdown(heap, startpos, pos, newitem) ==
    IF pos > startpos /\ TupleLess(newitem, heap[pos \div 2])
    THEN _siftdown([heap EXCEPT ![pos] = heap[pos \div 2]], startpos, pos \div 2, newitem)
    ELSE [heap EXCEPT ![pos] = newitem]

RECURSIVE _siftup_walk(_, _, _)
_siftup_walk(heap, pos, newitem) ==
    LET childpos == 2 * pos
        rightpos == childpos + 1
        c == IF rightpos <= Len(heap) /\ ~TupleLess(heap[childpos], heap[rightpos])
             THEN rightpos ELSE childpos
    IN IF childpos <= Len(heap)
       THEN _siftup_walk([heap EXCEPT ![pos] = heap[c]], c, newitem)
       ELSE _siftdown([heap EXCEPT ![pos] = newitem], 1, pos, newitem)

_siftup(heap, pos) == _siftup_walk(heap, pos, heap[pos])

heappush(heap, item) == _siftdown(Append(heap, item), 1, Len(heap) + 1, item)

\* variant: the comparison is reversed, the smaller entry stays
heappushpop_reversed(heap, item) ==
    IF heap # <<>> /\ TupleLess(item, heap[1])
    THEN _siftup([heap EXCEPT ![1] = item], 1)
    ELSE heap

\* variant: the new entry always replaces the minimum
heappushpop_always(heap, item) ==
    IF heap # <<>> THEN _siftup([heap EXCEPT ![1] = item], 1) ELSE heap

\* the heap after heappushpop(heap, item); the caller drops the popped value
heappushpop(heap, item) ==
    IF heap # <<>> /\ TupleLess(heap[1], item)
    THEN _siftup([heap EXCEPT ![1] = item], 1)
    ELSE heap

\* variant: the capacity test admits one entry too many
keep_top_n_offbyone(pairs, n, item) ==
    IF Len(pairs) <= n THEN heappush(pairs, item) ELSE heappushpop(pairs, item)

\* variant: the capacity test stops pushing one entry early
keep_top_n_under(pairs, n, item) ==
    IF Len(pairs) < n - 1 THEN heappush(pairs, item) ELSE heappushpop(pairs, item)

\* lines 62-65 and 67-70: keep top_n similarities for each item
keep_top_n(pairs, n, item) ==
    IF Len(pairs) < n THEN heappush(pairs, item) ELSE heappushpop(pairs, item)

----------------------------------------------------------------------------
(* The inputs: a group is the sequence of its rows <<user_id, item_id>> *)

RECURSIVE Code(_)
Code(S) == IF S = {} THEN 0
           ELSE LET x == CHOOSE y \in S : \A z \in S : z <= y
                IN 2 ^ (x - 1) + Code(S \ {x})

\* user -> set of items; users are interchangeable, so one map per class
Baskets(nu, ni) ==
    {m \in [1..nu -> SUBSET (1..ni)] :
        \A u \in 1..nu : u < nu => Code(m[u]) >= Code(m[u + 1])}

\* the order in which the items first appear in the rows
Orders(ni) == {[k \in 1..ni |-> k], [k \in 1..ni |-> ni + 1 - k]}

RECURSIVE Rows(_, _, _)
Rows(m, ord, k) ==
    IF k > Len(ord) THEN <<>>
    ELSE SelectSeq([u \in DOMAIN m |-> <<u, ord[k]>>], LAMBDA r : r[2] \in m[r[1]])
         \o Rows(m, ord, k + 1)

GroupInputs(nu, ni) == {Rows(m, ord, 1) : m \in Baskets(nu, ni), ord \in Orders(ni)}

\* a group of the file with one row that lacks its user_id, its item_id, or both
MalformedRows == ({NaN} \X (0..RunItems)) \cup ((0..RunUsers) \X {NaN})
MalformedInputs ==
    UNION {{SubSeq(g, 1, k) \o <<r>> \o SubSeq(g, k + 1, Len(g)) : k \in 0..Len(g), r \in MalformedRows} :
              g \in GroupInputs(RunUsers, RunItems)}

NoParams == [k \in {} |-> 0]
ParamInputs == {NoParams} \cup {[alpha |-> a] : a \in 0..MaxAlpha}

\* sim_params only matters to swing: the other types run with the default {}
ConfigInputs ==
    {c \in [sim_type : SimTypes \cup {Unsupported}, top_n : 0..MaxTopN, sim_params : ParamInputs] :
        c.sim_type # "swing" => c.sim_params = NoParams}

----------------------------------------------------------------------------
(* calc_similarity, lines 23-39: the co-occurrence index *)

\* defaultdict(set)[k].add(v)
Add(f, k, v) == IF k \in DOMAIN f THEN [f EXCEPT ![k] = @ \cup {v}] ELSE f @@ (k :> {v})

\* item_pairs is a defaultdict(list), kept in the order its keys were inserted:
\* a sequence of <<key, list>>
Keys(pairs) == {pairs[k][1] : k \in DOMAIN pairs}
Get(pairs, key) ==
    IF key \in Keys(pairs)
    THEN pairs[CHOOSE k \in DOMAIN pairs : pairs[k][1] = key][2]
    ELSE <<>>
Put(pairs, key, list) ==
    IF key \in Keys(pairs)
    THEN [k \in DOMAIN pairs |-> IF pairs[k][1] = key THEN <<key, list>> ELSE pairs[k]]
    ELSE Append(pairs, <<key, list>>)

EmptyIndex == [user_items |-> <<>>, item_users |-> <<>>, items |-> <<>>]

\* lines 26-28, and the key order of item_users that line 38 copies
RECURSIVE BuildIndex(_, _, _)
BuildIndex(rows, k, idx) ==
    IF k > Len(rows) THEN idx
    ELSE LET user_id == rows[k][1]
             item_id == rows[k][2]
         IN BuildIndex(rows, k + 1,
                [user_items |-> Add(idx.user_items, user_id, item_id),
                 item_users |-> Add(idx.item_users, item_id, user_id),
                 items |-> IF item_id \in DOMAIN idx.item_users THEN idx.items
                           ELSE Append(idx.items, item_id)])

\* line 37
Alpha == IF "alpha" \in DOMAIN sim_params THEN sim_params.alpha ELSE 1

\* line 32: 1 / log2(3 + len(items)), in hundredths
UserWeight(n) == CASE n = 1 -> 50 [] n = 2 -> 43 [] n = 3 -> 39 [] n = 4 -> 36
                   [] n = 5 -> 33 [] OTHER -> 32

RECURSIVE SumWeights(_, _)
SumWeights(ui, S) ==
    IF S = {} THEN 0
    ELSE LET u == CHOOSE x \in S : TRUE
         IN UserWeight(Cardinality(ui[u])) + SumWeights(ui, S \ {u})

\* combinations(common_users, 2)
Combinations2(S) == {p \in SUBSET S : Cardinality(p) = 2}

\* variant: the overlap of two users is counted one item short
RECURSIVE SwingSum_short(_, _)
SwingSum_short(ui, P) ==
    IF P = {} THEN Zero
    ELSE LET p == CHOOSE x \in P : TRUE
             u == CHOOSE x \in p : TRUE
             v == CHOOSE x \in p : x # u
         IN RatAdd(Rat(1, Alpha + Cardinality(ui[u] \cap ui[v]) - 1), SwingSum_short(ui, P \ {p}))

\* lines 55-57
RECURSIVE SwingSum(_, _)
SwingSum(ui, P) ==
    IF P = {} THEN Zero
    ELSE LET p == CHOOSE x \in P : TRUE
             u == CHOOSE x \in p : TRUE
             v == CHOOSE x \in p : x # u
         IN RatAdd(Rat(1, Alpha + Cardinality(ui[u] \cap ui[v])), SwingSum(ui, P \ {p}))

\* what a raise leaves in place of a score: line 59, and a zero divisor in line 57
ValueError == <<0, 0, -1>>
ZeroDivisionError == <<0, 0, -2>>

\* variant: the union in place of the intersection
CommonUsers_union(idx, item_i, item_j) == idx.item_users[item_i] \cup idx.item_users[item_j]

\* line 44
CommonUsers(idx, item_i, item_j) == idx.item_users[item_i] \cap idx.item_users[item_j]

\* variant of the scores: the union over the intersection
Similarity_inverted(idx, item_i, item_j) ==
    LET Ui == idx.item_users[item_i]
        Uj == idx.item_users[item_j]
    IN IF sim_type \in SimTypes
       THEN Rat(Cardinality(Ui \cup Uj) + 1, Cardinality(Ui \cap Uj))
       ELSE ValueError

\* variant of the scores: the smaller user set in place of the union
Similarity_overlap(idx, item_i, item_j) ==
    LET common_users == CommonUsers(idx, item_i, item_j)
        Ui == idx.item_users[item_i]
        Uj == idx.item_users[item_j]
    IN IF sim_type \in SimTypes
       THEN Rat(Cardinality(common_users), Min(Cardinality(Ui), Cardinality(Uj)))
       ELSE ValueError

\* lines 48-59: the score of a pair with common users, or the error raised
Similarity(idx, item_i, item_j) ==
    LET common_users == CommonUsers(idx, item_i, item_j)
        Ui == idx.item_users[item_i]
        Uj == idx.item_users[item_j]
    IN CASE sim_type = "jaccard" -> Rat(Cardinality(common_users), Cardinality(Ui \cup Uj))
         [] sim_type = "cosine" -> Root(Cardinality(common_users), Cardinality(Ui) * Cardinality(Uj))
         [] sim_type = "wb_cosine" ->
                Root(SumWeights(idx.user_items, common_users),
                     SumWeights(idx.user_items, Ui) * SumWeights(idx.user_items, Uj))
         [] sim_type = "swing" ->
                IF \E p \in Combinations2(common_users) : \E u, v \in p :
                       u # v /\ Alpha + Cardinality(idx.user_items[u] \cap idx.user_items[v]) = 0
                THEN ZeroDivisionError
                ELSE SwingSum(idx.user_items, Combinations2(common_users))
         [] OTHER -> ValueError

Raises(s) == s[3] < 0

\* variant: the inner loop starts at the first item, range(0, len(items))
NextPair_from0(a, b, n) == IF b < n THEN <<a, b + 1>> ELSE <<a + 1, 1>>

\* the loop of lines 41-42: the pair after (i, j) in a list of n items
NextPair(a, b, n) == IF b < n THEN <<a, b + 1>> ELSE <<a + 1, a + 2>>

\* lines 62-65 (anchor item_i) and 67-70 (anchor item_j)
Offer(pairs, anchor, score, neighbour) ==
    Put(pairs, anchor, keep_top_n(Get(pairs, anchor), top_n, <<score, neighbour>>))

\* lines 41-72: the loop from the pair (a, b) on; the lists built, or the raise
RECURSIVE PairLoop(_, _, _, _)
PairLoop(idx, a, b, pairs) ==
    IF a >= Len(idx.items) THEN [raised |-> FALSE, item_pairs |-> pairs]
    ELSE LET item_i == idx.items[a]
             item_j == idx.items[b]
             np == NextPair(a, b, Len(idx.items))
             s == Similarity(idx, item_i, item_j)
         IN IF CommonUsers(idx, item_i, item_j) = {} THEN PairLoop(idx, np[1], np[2], pairs)
            ELSE IF Raises(s) THEN [raised |-> TRUE, item_pairs |-> pairs]
            ELSE PairLoop(idx, np[1], np[2],
                          Offer(Offer(pairs, item_i, s, item_j), item_j, s, item_i))

\* lines 22-72, as the pool worker runs it
calc_similarity(rows) == PairLoop(BuildIndex(rows, 1, EmptyIndex), 1, 2, <<>>)

----------------------------------------------------------------------------
(* Spec: calc_similarity(group), step by step *)

\* no ItemEmbeddingI2I has been constructed
NoEmbeddingRun ==
    /\ index_type = "" /\ normalize = FALSE /\ threshold = 0
    /\ snapshots = <<>> /\ ids = <<>> /\ embeddings = <<>>
    /\ scores = <<>> /\ indices = <<>>

Init ==
    /\ \E c \in ConfigInputs :
          /\ sim_type = c.sim_type
          /\ top_n = c.top_n
          /\ sim_params = c.sim_params
    /\ group \in GroupInputs(NumUsers, NumItems)
    /\ pc = "start"
    /\ user_items = <<>> /\ item_users = <<>> /\ items = <<>>
    /\ i = 1 /\ j = 2 /\ sim = Zero
    /\ item_pairs = <<>>
    /\ visits = <<>> /\ offers = <<>>
    /\ data = <<>> /\ phase = "idle" /\ task = <<>> /\ results = <<>>
    /\ output = <<>> /\ finished = <<>> /\ round = 0
    /\ first_data = <<>> /\ first_phase = "idle" /\ first_results = <<>> /\ first_output = <<>>
    /\ NoEmbeddingRun

Index == [user_items |-> user_items, item_users |-> item_users, items |-> items]

\* lines 23-39
Build ==
    /\ pc = "start"
    /\ LET idx == BuildIndex(group, 1, EmptyIndex)
       IN /\ user_items' = idx.user_items
          /\ item_users' = idx.item_users
          /\ items' = idx.items
    /\ item_pairs' = <<>>
    /\ i' = 1 /\ j' = 2
    /\ pc' = "pair"
    /\ UNCHANGED <<group, sim, visits, offers>>
    /\ UNCHANGED cfgVars /\ UNCHANGED embVars /\ UNCHANGED runVars

InLoop == pc = "pair" /\ i < Len(items)

Advance ==
    /\ i' = NextPair(i, j, Len(items))[1]
    /\ j' = NextPair(i, j, Len(items))[2]

\* lines 43-46: no common user, continue
SkipPair ==
    /\ InLoop
    /\ CommonUsers(Index, items[i], items[j]) = {}
    /\ visits' = Append(visits, <<items[i], items[j]>>)
    /\ Advance
    /\ UNCHANGED <<group, pc, user_items, item_users, items, sim, item_pairs, offers>>
    /\ UNCHANGED cfgVars /\ UNCHANGED embVars /\ UNCHANGED runVars

\* lines 43-57: the score of the pair
ScorePair ==
    /\ InLoop
    /\ CommonUsers(Index, items[i], items[j]) # {}
    /\ ~Raises(Similarity(Index, items[i], items[j]))
    /\ sim' = Similarity(Index, items[i], items[j])
    /\ visits' = Append(visits, <<items[i], items[j]>>)
    /\ pc' = "offer_i"
    /\ UNCHANGED <<group, user_items, item_users, items, i, j, item_pairs, offers>>
    /\ UNCHANGED cfgVars /\ UNCHANGED embVars /\ UNCHANGED runVars

\* lines 43-59: the raise
RaiseError ==
    /\ InLoop
    /\ CommonUsers(Index, items[i], items[j]) # {}
    /\ Raises(Similarity(Index, items[i], items[j]))
    /\ visits' = Append(visits, <<items[i], items[j]>>)
    /\ pc' = "raised"
    /\ UNCHANGED <<group, user_items, item_users, items, i, j, sim, item_pairs, offers>>
    /\ UNCHANGED cfgVars /\ UNCHANGED embVars /\ UNCHANGED runVars

\* lines 62-65
OfferI ==
    /\ pc = "offer_i"
    /\ item_pairs' = Offer(item_pairs, items[i], sim, items[j])
    /\ offers' = Append(offers, [anchor |-> items[i], score |-> sim, neighbour |-> items[j],
                                  full |-> Len(Get(item_pairs, items[i])) >= top_n,
                                  kept |-> \E k \in DOMAIN Get(item_pairs', items[i]) :
                                              Get(item_pairs', items[i])[k] = <<sim, items[j]>>])
    /\ pc' = "offer_j"
    /\ UNCHANGED <<group, user_items, item_users, items, i, j, sim, visits>>
    /\ UNCHANGED cfgVars /\ UNCHANGED embVars /\ UNCHANGED runVars

\* lines 67-70, and the step of the loop
OfferJ ==
    /\ pc = "offer_j"
    /\ item_pairs' = Offer(item_pairs, items[j], sim, items[i])
    /\ offers' = Append(offers, [anchor |-> items[j], score |-> sim, neighbour |-> items[i],
                                  full |-> Len(Get(item_pairs, items[j])) >= top_n,
                                  kept |-> \E k \in DOMAIN Get(item_pairs', items[j]) :
                                              Get(item_pairs', items[j])[k] = <<sim, items[i]>>])
    /\ Advance
    /\ pc' = "pair"
    /\ UNCHANGED <<group, user_items, item_users, items, sim, visits>>
    /\ UNCHANGED cfgVars /\ UNCHANGED embVars /\ UNCHANGED runVars

\* line 72
Return ==
    /\ pc = "pair"
    /\ i >= Len(items)
    /\ pc' = "done"
    /\ UNCHANGED <<group, user_items, item_users, items, i, j, sim, item_pairs, visits, offers>>
    /\ UNCHANGED cfgVars /\ UNCHANGED embVars /\ UNCHANGED runVars

Next == Build \/ SkipPair \/ ScorePair \/ RaiseError \/ OfferI \/ OfferJ \/ Return

Spec == Init /\ [][Next]_vars

\* the same call on a group that has a row with an empty cell
InitMalformed ==
    /\ \E c \in ConfigInputs :
          /\ sim_type = c.sim_type
          /\ top_n = c.top_n
          /\ sim_params = c.sim_params
    /\ group \in MalformedInputs
    /\ pc = "start"
    /\ user_items = <<>> /\ item_users = <<>> /\ items = <<>>
    /\ i = 1 /\ j = 2 /\ sim = Zero
    /\ item_pairs = <<>>
    /\ visits = <<>> /\ offers = <<>>
    /\ data = <<>> /\ phase = "idle" /\ task = <<>> /\ results = <<>>
    /\ output = <<>> /\ finished = <<>> /\ round = 0
    /\ first_data = <<>> /\ first_phase = "idle" /\ first_results = <<>> /\ first_output = <<>>
    /\ NoEmbeddingRun

SpecMalformed == InitMalformed /\ [][Next]_vars

----------------------------------------------------------------------------
(* SpecRun: ItemCFI2I.run, lines 86-92, and output_result, lines 74-84 *)

\* the rows <<group_id, user_id, item_id>> of the file: the rows of each group in turn
RECURSIVE DataInputs(_)
DataInputs(g) ==
    IF g = 0 THEN {<<>>}
    ELSE {d \o [k \in DOMAIN rows |-> <<g, rows[k][1], rows[k][2]>>] :
            d \in DataInputs(g - 1), rows \in GroupInputs(RunUsers, RunItems)}

RunConfigInputs == {c \in ConfigInputs : c.sim_params = NoParams}

\* variant: the frame of a group holds every row of the file
GroupRows_all(d, g) == [k \in DOMAIN d |-> <<d[k][2], d[k][3]>>]

\* line 88 and line 26: the rows of one group, as calc_similarity reads them
GroupRows(d, g) ==
    LET own == SelectSeq(d, LAMBDA r : r[1] = g)
    IN [k \in DOMAIN own |-> <<own[k][2], own[k][3]>>]

GroupIds(d) == {d[k][1] : k \in DOMAIN d}

\* line 88: the group keys, sorted
RECURSIVE SortedKeys(_)
SortedKeys(S) ==
    IF S = {} THEN <<>>
    ELSE LET m == CHOOSE x \in S : \A y \in S : x <= y
         IN <<m>> \o SortedKeys(S \ {m})

\* line 90: [group for _, group in groups]
groupby(d) == [k \in 1..Cardinality(GroupIds(d)) |-> GroupRows(d, SortedKeys(GroupIds(d))[k])]

\* lines 78-83: the rows <<item1, item2, score>> of the frame
RECURSIVE output_result(_)
output_result(pairs) ==
    IF pairs = <<>> THEN <<>>
    ELSE LET item == Head(pairs)[1]
             list == Head(pairs)[2]
         IN [k \in DOMAIN list |-> <<item, list[k][2], list[k][1]>>] \o output_result(Tail(pairs))

\* line 84: to_csv(self.output, index=False, mode='a') appends the header line
\* and then one line per row of the frame
to_csv(frame) == <<<<"item1", "item2", "score">>>> \o frame

\* the lines of self.output after the writes of a run, on a file that was empty
RECURSIVE FileLines(_)
FileLines(frames) ==
    IF frames = <<>> THEN <<>> ELSE to_csv(Head(frames)) \o FileLines(Tail(frames))

\* variant: a result goes to the next free place, in the order the tasks end
Slot_completion(k, t) == 1 + Cardinality({m \in DOMAIN t : t[m] = "done"})

\* line 90: pool.map puts the result of the k-th task at the k-th place
Slot(k, t) == k

\* variant: the results are taken as soon as one task has ended
MapReady_any(t) == \E k \in DOMAIN t : t[k] \in {"done", "raised"}

\* line 90: pool.map returns when every task has ended
MapReady(t) == \A k \in DOMAIN t : t[k] \in {"done", "raised"}

InitRun ==
    /\ \E c \in RunConfigInputs :
          /\ sim_type = c.sim_type
          /\ top_n = c.top_n
          /\ sim_params = c.sim_params
    /\ data \in DataInputs(NumGroups)
    /\ phase = "idle" /\ task = <<>> /\ results = <<>> /\ output = <<>>
    /\ finished = <<>>
    /\ round = 1
    /\ first_data = <<>> /\ first_phase = "idle" /\ first_results = <<>> /\ first_output = <<>>
    /\ group = <<>> /\ pc = "idle"
    /\ user_items = <<>> /\ item_users = <<>> /\ items = <<>>
    /\ i = 1 /\ j = 2 /\ sim = Zero
    /\ item_pairs = <<>>
    /\ visits = <<>> /\ offers = <<>>
    /\ NoEmbeddingRun

\* lines 87-90: load, group, and hand one task per group to the pool
LoadData ==
    /\ phase = "idle"
    /\ phase' = "map"
    /\ task' = [k \in DOMAIN groupby(data) |-> "queued"]
    /\ results' = [k \in DOMAIN groupby(data) |-> <<>>]
    /\ UNCHANGED <<finished, data, output, round, first_data, first_phase, first_results, first_output>>
    /\ UNCHANGED cfgVars /\ UNCHANGED embVars /\ UNCHANGED calcVars

\* a free worker of the pool takes the next task of the queue
WorkerStart(k) ==
    /\ phase = "map"
    /\ task[k] = "queued"
    /\ \A m \in DOMAIN task : m < k => task[m] # "queued"
    /\ Cardinality({m \in DOMAIN task : task[m] = "running"}) < PoolSize
    /\ task' = [task EXCEPT ![k] = "running"]
    /\ UNCHANGED <<finished, data, phase, results, output, round, first_data, first_phase,
                   first_results, first_output>>
    /\ UNCHANGED cfgVars /\ UNCHANGED embVars /\ UNCHANGED calcVars

\* the worker's calc_similarity(group) returns, and its result reaches the parent
WorkerReturn(k) ==
    /\ phase = "map"
    /\ task[k] = "running"
    /\ ~calc_similarity(groupby(data)[k]).raised
    /\ results' = [results EXCEPT ![Slot(k, task)] = calc_similarity(groupby(data)[k]).item_pairs]
    /\ finished' = Append(finished, k)
    /\ task' = [task EXCEPT ![k] = "done"]
    /\ UNCHANGED <<data, phase, output, round, first_data, first_phase, first_results,
                   first_output>>
    /\ UNCHANGED cfgVars /\ UNCHANGED embVars /\ UNCHANGED calcVars

\* the worker's calc_similarity(group) raises
WorkerRaise(k) ==
    /\ phase = "map"
    /\ task[k] = "running"
    /\ calc_similarity(groupby(data)[k]).raised
    /\ finished' = Append(finished, k)
    /\ task' = [task EXCEPT ![k] = "raised"]
    /\ UNCHANGED <<data, phase, results, output, round, first_data, first_phase,
                   first_results, first_output>>
    /\ UNCHANGED cfgVars /\ UNCHANGED embVars /\ UNCHANGED calcVars

\* line 90: pool.map returns the list of results
MapReturn ==
    /\ phase = "map"
    /\ MapReady(task)
    /\ \A k \in DOMAIN task : task[k] # "raised"
    /\ phase' = "write"
    /\ UNCHANGED <<finished, data, task, results, output, round, first_data, first_phase,
                   first_results, first_output>>
    /\ UNCHANGED cfgVars /\ UNCHANGED embVars /\ UNCHANGED calcVars

\* line 90: pool.map raises the error of a task again, and run() ends with it
MapRaise ==
    /\ phase = "map"
    /\ MapReady(task)
    /\ \E k \in DOMAIN task : task[k] = "raised"
    /\ phase' = "failed"
    /\ UNCHANGED <<finished, data, task, results, output, round, first_data, first_phase,
                   first_results, first_output>>
    /\ UNCHANGED cfgVars /\ UNCHANGED embVars /\ UNCHANGED calcVars

\* lines 91-92: one output_result, appended to the file
WriteResult ==
    /\ phase = "write"
    /\ Len(output) < Len(results)
    /\ output' = Append(output, output_result(results[Len(output) + 1]))
    /\ UNCHANGED <<finished, data, phase, task, results, round, first_data, first_phase,
                   first_results, first_output>>
    /\ UNCHANGED cfgVars /\ UNCHANGED embVars /\ UNCHANGED calcVars

\* the end of the loop of line 91
Finish ==
    /\ phase = "write"
    /\ Len(output) = Len(results)
    /\ phase' = "finished"
    /\ UNCHANGED <<finished, data, task, results, output, round, first_data, first_phase,
                   first_results, first_output>>
    /\ UNCHANGED cfgVars /\ UNCHANGED embVars /\ UNCHANGED calcVars

\* the file of a second run: the same rows, or the same rows less one
RerunInputs(d) == {d} \cup {SubSeq(d, 1, k - 1) \o SubSeq(d, k + 1, Len(d)) : k \in DOMAIN d}

\* a second run with the same configuration; output holds what this run appends
Rerun ==
    /\ phase \in {"finished", "failed"}
    /\ round = 1
    /\ round' = 2
    /\ first_data' = data /\ first_phase' = phase
    /\ first_results' = results /\ first_output' = output
    /\ data' \in RerunInputs(data)
    /\ phase' = "idle" /\ task' = <<>> /\ results' = <<>> /\ output' = <<>>
    /\ finished' = <<>>
    /\ UNCHANGED cfgVars /\ UNCHANGED embVars /\ UNCHANGED calcVars

NextRun ==
    \/ LoadData
    \/ \E k \in DOMAIN task : WorkerStart(k)
    \/ \E k \in DOMAIN task : WorkerReturn(k)
    \/ \E k \in DOMAIN task : WorkerRaise(k)
    \/ MapReturn \/ MapRaise
    \/ WriteResult \/ Finish
    \/ Rerun

SpecRun == InitRun /\ [][NextRun]_vars

----------------------------------------------------------------------------
(* SpecOffers: lines 61-70 for one anchor, its offers arriving in any order *)

\* the anchor, and what it can be offered: a score of three and a neighbour
AnchorItem == 1
OfferScores == {Rat(1, 3), Rat(1, 2), Rat(1, 1)}
OfferInputs == OfferScores \X (2..(1 + MaxNeighbours))

InitOffers ==
    /\ top_n \in 0..MaxTopN
    /\ sim_type = "jaccard" /\ sim_params = NoParams
    /\ pc = "offers"
    /\ item_pairs = <<>> /\ offers = <<>>
    /\ group = <<>>
    /\ user_items = <<>> /\ item_users = <<>> /\ items = <<>>
    /\ i = 1 /\ j = 2 /\ sim = Zero
    /\ visits = <<>>
    /\ data = <<>> /\ phase = "idle" /\ task = <<>> /\ results = <<>>
    /\ output = <<>> /\ finished = <<>> /\ round = 0
    /\ first_data = <<>> /\ first_phase = "idle" /\ first_results = <<>> /\ first_output = <<>>
    /\ NoEmbeddingRun

\* lines 62-65: the anchor is offered a neighbour it has not been offered yet
OfferAny(e) ==
    /\ pc = "offers"
    /\ \A k \in DOMAIN offers : offers[k].neighbour # e[2]
    /\ item_pairs' = Offer(item_pairs, AnchorItem, e[1], e[2])
    /\ offers' = Append(offers, [anchor |-> AnchorItem, score |-> e[1], neighbour |-> e[2],
                                  full |-> Len(Get(item_pairs, AnchorItem)) >= top_n,
                                  kept |-> \E k \in DOMAIN Get(item_pairs', AnchorItem) :
                                              Get(item_pairs', AnchorItem)[k] = e])
    /\ UNCHANGED <<group, pc, user_items, item_users, items, i, j, sim, visits>>
    /\ UNCHANGED cfgVars /\ UNCHANGED embVars /\ UNCHANGED runVars

NextOffers == \E e \in OfferInputs : OfferAny(e)

SpecOffers == InitOffers /\ [][NextOffers]_vars

----------------------------------------------------------------------------
(* SpecEmbed: ItemEmbeddingI2I.run, src/train/itemEmbeddingI2I.py lines 65-68 *)

\* argparse choices of --index_type, and one name outside them
IndexTypes == {"IndexFlatIP", "IndexFlatL2"}
UnsupportedIndex == "IndexHNSW"

\* An embedding is a length times one of three unit vectors x, y, z, whose
\* cosines are 0.9 (x, y), 0.2 (x, z) and 0.1 (y, z); scores and the threshold
\* are in tenths.
Directions == {"x", "y", "z"}
Cos10(d, e) ==
    CASE d = e -> 10
      [] {d, e} = {"x", "y"} -> 9
      [] {d, e} = {"x", "z"} -> 2
      [] {d, e} = {"y", "z"} -> 1
Vectors == [dir : Directions, len : 1..MaxLen]

\* a snapshot file: the rows <<item_id, embedding>>, item_id the number of the row
Catalogues == UNION {[1..n -> Vectors] : n \in 0..MaxCatalogue}
FileOf(c) == [k \in DOMAIN c |-> <<k, c[k]>>]
OlderFile == FileOf(<<[dir |-> "z", len |-> 1]>>)

\* os.listdir(embed_path), sorted: no file, one file, or an older file and a
\* file of at most one row
SnapshotInputs ==
    {<<>>} \cup {<<FileOf(c)>> : c \in Catalogues}
           \cup {<<OlderFile, FileOf(c)>> : c \in {d \in Catalogues : Len(d) <= 1}}

\* --threshold (default 0) and --top_n
ThresholdInputs == {0, 5, 9}
EmbedConfigInputs ==
    [index_type : IndexTypes \cup {UnsupportedIndex}, normalize : BOOLEAN,
     threshold : ThresholdInputs, top_n : (0..MaxTopN) \cup {5}]

\* IndexFlatIP: the inner product; IndexFlatL2: the squared distance
inner_product(u, v) == u.len * v.len * Cos10(u.dir, v.dir)
l2_distance(u, v) == 10 * (u.len * u.len + v.len * v.len) - 2 * inner_product(u, v)

\* variant: normalize_L2 works on a copy and leaves the array as it was
normalize_L2_copy(embs) == embs

\* line 32: faiss.normalize_L2 scales every row of the array to length 1, in place
normalize_L2(embs) == [k \in DOMAIN embs |-> [embs[k] EXCEPT !.len = 1]]

\* line 43: what faiss puts in a slot for which the index has no vector left: label
\* -1 with the lowest (IndexFlatIP) or the highest (IndexFlatL2) float
FltMax == 1000000
NoLabel == -1
Metric(u, v) == IF index_type = "IndexFlatIP" THEN inner_product(u, v) ELSE l2_distance(u, v)
Better(a, b) == IF index_type = "IndexFlatIP" THEN a > b ELSE a < b
NoScore == IF index_type = "IndexFlatIP" THEN -FltMax ELSE FltMax

\* line 43: the results for the query at place q, k slots of <<label, score>>: the
\* best min(k, n) vectors of the index, best first, in any order among equal
\* scores, then the empty slots
SearchRow(embs, q, k) ==
    LET n == Len(embs)
        m == IF k < n THEN k ELSE n
        sc(x) == Metric(embs[q], embs[x])
        hits == {h \in [1..m -> 1..n] :
                    /\ \A a, b \in 1..m : a < b => h[a] # h[b] /\ ~Better(sc(h[b]), sc(h[a]))
                    /\ \A x \in 1..n : (\A a \in 1..m : h[a] # x) => ~Better(sc(x), sc(h[m]))}
    IN {[s \in 1..k |-> IF s <= m THEN <<h[s], sc(h[s])>> ELSE <<NoLabel, NoScore>>] : h \in hits}

\* line 43: index.search(embeddings, k), one row of results for each vector
RECURSIVE search(_, _, _)
search(embs, q, k) ==
    IF q > Len(embs) THEN {<<>>}
    ELSE {<<r>> \o rest : r \in SearchRow(embs, q, k), rest \in search(embs, q + 1, k)}

\* ids[j] of line 49: Python counts a negative index from the end of the array
IdAt(idseq, label) == IF label = NoLabel THEN idseq[Len(idseq)] ELSE idseq[label]

\* variant: the first slot of each row is taken to be the item itself
Keep_first(slot, place, label, score) == slot # 1 /\ score >= threshold

\* line 48: i != j and score >= self.threshold
Keep(slot, place, label, score) == place # label /\ score >= threshold

\* lines 47-49: the slots of row q from slot s on
RECURSIVE FilterRow(_, _, _, _, _, _)
FilterRow(pairs, idseq, lab, sco, q, s) ==
    IF s > Len(lab[q]) THEN pairs
    ELSE FilterRow(IF Keep(s, q, lab[q][s], sco[q][s])
                   THEN Put(pairs, idseq[q],
                            Append(Get(pairs, idseq[q]), <<sco[q][s], IdAt(idseq, lab[q][s])>>))
                   ELSE pairs,
                   idseq, lab, sco, q, s + 1)

\* lines 45-49: the rows from row q on
RECURSIVE FilterRows(_, _, _, _, _)
FilterRows(pairs, idseq, lab, sco, q) ==
    IF q > Len(idseq) THEN pairs
    ELSE FilterRows(FilterRow(pairs, idseq, lab, sco, q, 1), idseq, lab, sco, q + 1)

\* what a run of ItemEmbeddingI2I leaves alone
embedFixed == <<sim_type, sim_params, top_n, group, user_items, item_users, items, i, j, sim,
                visits, offers, data, phase, task, results, finished, round, first_data,
                first_phase, first_results, first_output, index_type, normalize, threshold,
                snapshots>>

InitEmbed ==
    /\ \E c \in EmbedConfigInputs :
          /\ index_type = c.index_type
          /\ normalize = c.normalize
          /\ threshold = c.threshold
          /\ top_n = c.top_n
    /\ snapshots \in SnapshotInputs
    /\ ids = <<>> /\ embeddings = <<>> /\ scores = <<>> /\ indices = <<>>
    /\ pc = "load"
    /\ item_pairs = <<>> /\ output = <<>>
    /\ sim_type = "" /\ sim_params = NoParams
    /\ group = <<>>
    /\ user_items = <<>> /\ item_users = <<>> /\ items = <<>>
    /\ i = 1 /\ j = 2 /\ sim = Zero
    /\ visits = <<>> /\ offers = <<>>
    /\ data = <<>> /\ phase = "idle" /\ task = <<>> /\ results = <<>>
    /\ finished = <<>> /\ round = 0
    /\ first_data = <<>> /\ first_phase = "idle" /\ first_results = <<>> /\ first_output = <<>>

\* line 19: the last of the sorted file names
latest_file == IF snapshots = <<>> THEN <<>> ELSE snapshots[Len(snapshots)]

\* lines 17-28 fail: files[-1] of an empty list, np.vstack of no rows
CannotLoad == snapshots = <<>> \/ latest_file = <<>>

\* lines 17-28 and 66
load_data ==
    /\ pc = "load"
    /\ ~CannotLoad
    /\ ids' = [k \in DOMAIN latest_file |-> latest_file[k][1]]
    /\ embeddings' = [k \in DOMAIN latest_file |-> latest_file[k][2]]
    /\ pc' = "normalize"
    /\ UNCHANGED <<scores, indices, item_pairs, output>>
    /\ UNCHANGED embedFixed

\* lines 18-25: IndexError or ValueError, and run() ends with it
load_data_raises ==
    /\ pc = "load"
    /\ CannotLoad
    /\ pc' = "failed"
    /\ UNCHANGED <<ids, embeddings, scores, indices, item_pairs, output>>
    /\ UNCHANGED embedFixed

\* lines 31-32
Normalize ==
    /\ pc = "normalize"
    /\ embeddings' = IF normalize THEN normalize_L2(embeddings) ELSE embeddings
    /\ pc' = "index"
    /\ UNCHANGED <<ids, scores, indices, item_pairs, output>>
    /\ UNCHANGED embedFixed

\* lines 34-37 and 41: the index is made and holds a copy of the vectors
BuildFaissIndex ==
    /\ pc = "index"
    /\ index_type \in IndexTypes
    /\ pc' = "search"
    /\ UNCHANGED <<ids, embeddings, scores, indices, item_pairs, output>>
    /\ UNCHANGED embedFixed

\* lines 38-39: raise ValueError, and run() ends with it
InvalidIndexType ==
    /\ pc = "index"
    /\ index_type \notin IndexTypes
    /\ pc' = "failed"
    /\ UNCHANGED <<ids, embeddings, scores, indices, item_pairs, output>>
    /\ UNCHANGED embedFixed

\* line 43
SearchIndex ==
    /\ pc = "search"
    /\ \E res \in search(embeddings, 1, top_n + 1) :
          /\ indices' = [q \in DOMAIN res |-> [s \in DOMAIN res[q] |-> res[q][s][1]]]
          /\ scores' = [q \in DOMAIN res |-> [s \in DOMAIN res[q] |-> res[q][s][2]]]
    /\ pc' = "filter"
    /\ UNCHANGED <<ids, embeddings, item_pairs, output>>
    /\ UNCHANGED embedFixed

\* lines 45-51
FilterResults ==
    /\ pc = "filter"
    /\ item_pairs' = FilterRows(<<>>, ids, indices, scores, 1)
    /\ pc' = "write"
    /\ UNCHANGED <<ids, embeddings, scores, indices, output>>
    /\ UNCHANGED embedFixed

\* line 68 and lines 53-63
WriteEmbedResult ==
    /\ pc = "write"
    /\ output' = Append(output, output_result(item_pairs))
    /\ pc' = "done"
    /\ UNCHANGED <<ids, embeddings, scores, indices, item_pairs>>
    /\ UNCHANGED embedFixed

NextEmbed ==
    \/ load_data \/ load_data_raises
    \/ Normalize
    \/ BuildFaissIndex \/ InvalidIndexType
    \/ SearchIndex
    \/ FilterResults
    \/ WriteEmbedResult

SpecEmbed == InitEmbed /\ [][NextEmbed]_vars

----------------------------------------------------------------------------
(* What the claims speak of, read off the rows and the history *)

Range(q) == {q[k] : k \in DOMAIN q}

\* the users of an item and the items of the group, from the rows themselves
UsersOf(rows, item) == {r[1] : r \in {x \in Range(rows) : x[2] = item}}
ItemsOf(rows) == {r[2] : r \in Range(rows)}
Shared(rows, a, b) == UsersOf(rows, a) \cap UsersOf(rows, b)

\* the entries an anchor retains, and the offers made to it so far
Retained(a) == Range(Get(item_pairs, a))
OffersTo(a) == {k \in DOMAIN offers : offers[k].anchor = a}
Entry(o) == <<o.score, o.neighbour>>
Dropped(a) == {Entry(offers[k]) : k \in OffersTo(a)} \ Retained(a)

\* C1: at every point, every anchor's list holds exactly min(top_n, k) entries,
\* k the number of offers made to the anchor so far; so never more than top_n.
C1_SizeIsMinOfTopNAndOffers ==
    \A a \in ItemsOf(group) :
        /\ Len(Get(item_pairs, a)) = Min(top_n, Cardinality(OffersTo(a)))
        /\ Len(Get(item_pairs, a)) <= top_n

\* an anchor that was offered more than top_n >= 1 entries
C1_Witness ==
    \E a \in ItemsOf(group) :
        top_n >= 1 /\ Cardinality(OffersTo(a)) > top_n /\ Len(Get(item_pairs, a)) = top_n

\* C2: at every point, every retained score is >= every score that was offered to
\* the same anchor and is not retained (discarded on offer or evicted later).
C2_MonotoneTopN ==
    \A a \in ItemsOf(group) :
        \A e \in Retained(a) : \A d \in Dropped(a) : ScoreLeq(d[1], e[1])

\* an anchor that retains an entry and has dropped one of a strictly lower score
C2_Witness ==
    \E a \in ItemsOf(group) :
        \E e \in Retained(a) : \E d \in Dropped(a) : ScoreLess(d[1], e[1])

\* the offer the next step makes, and the list it is made to
OfferStep == pc \in {"offer_i", "offer_j"}
CurAnchor == IF pc = "offer_i" THEN items[i] ELSE items[j]
CurEntry == IF pc = "offer_i" THEN <<sim, items[j]>> ELSE <<sim, items[i]>>
AtCapacity == OfferStep /\ top_n >= 1 /\ Len(Get(item_pairs, CurAnchor)) = top_n

\* C3 as claimed: at capacity, the offer replaces the minimum entry iff its score is
\* strictly greater than the minimum score, and otherwise the list is unchanged.
C3_EvictsOnlyOnGreaterScore ==
    [][AtCapacity =>
        LET old == Get(item_pairs, CurAnchor)
            new == Get(item_pairs', CurAnchor)
        IN IF ScoreLess(old[1][1], sim)
           THEN Range(new) = (Range(old) \ {old[1]}) \cup {CurEntry}
           ELSE new = old]_vars

\* C3 amended: at capacity, the offer replaces the minimum entry iff the tuple
\* (score, neighbour) is greater than the minimum tuple: a greater score, or an
\* equal score with a greater neighbour id; otherwise the list is unchanged.
C3_EvictsOnGreaterTuple ==
    [][AtCapacity =>
        LET old == Get(item_pairs, CurAnchor)
            new == Get(item_pairs', CurAnchor)
        IN /\ \A e \in Range(old) : ~TupleLess(e, old[1])
           /\ IF ScoreLess(old[1][1], sim)
                 \/ (ScoreEq(old[1][1], sim) /\ old[1][2] < CurEntry[2])
              THEN Range(new) = (Range(old) \ {old[1]}) \cup {CurEntry}
              ELSE new = old]_vars

\* the last offer went to a list at capacity and has replaced an entry of the
\* same score
C3_Witness ==
    /\ offers # <<>>
    /\ LET o == offers[Len(offers)]
       IN /\ top_n >= 1 /\ Cardinality(OffersTo(o.anchor)) > top_n
          /\ Entry(o) \in Retained(o.anchor)
          /\ \E d \in Dropped(o.anchor) : ScoreEq(d[1], o.score)

\* C4: no list ever holds an edge between two items without a common user, for
\* every similarity type.
C4_NoEdgeWithoutCommonUser ==
    \A a \in Keys(item_pairs) :
        \A e \in Retained(a) :
            Shared(group, a, e[2]) # {} /\ Shared(group, e[2], a) # {}

\* a finished call that skipped a pair and retained edges of other pairs
C4_Witness ==
    /\ pc = "done"
    /\ \E a, b \in ItemsOf(group) : a # b /\ Shared(group, a, b) = {}
    /\ \E a \in Keys(item_pairs) : Retained(a) # {}

VisitsOf(a, b) == {k \in DOMAIN visits : visits[k] \in {<<a, b>>, <<b, a>>}}
OffersOf(a, b) == {k \in DOMAIN offers : offers[k].anchor = a /\ offers[k].neighbour = b}

\* C5: no pair is visited twice and, when the loop has ended, every unordered pair
\* of distinct items was visited once; a pair with a common user has got one offer
\* in each direction, both with one score, and a pair without one has got none.
C5_EachPairOnceAndSymmetric ==
    /\ \A a, b \in ItemsOf(group) : Cardinality(VisitsOf(a, b)) <= 1
    /\ \A k \in DOMAIN visits : visits[k][1] # visits[k][2]
    /\ \A k \in DOMAIN offers : offers[k].anchor # offers[k].neighbour
    /\ pc \in {"pair", "done"} =>
          \A a, b \in ItemsOf(group) :
              LET ab == OffersOf(a, b)
                  ba == OffersOf(b, a)
              IN /\ Cardinality(ab) = Cardinality(ba)
                 /\ Cardinality(ab) <= 1
                 /\ \A x \in ab : \A y \in ba : offers[x].score = offers[y].score
                 /\ (a # b /\ VisitsOf(a, b) # {}) =>
                        Cardinality(ab) = (IF Shared(group, a, b) = {} THEN 0 ELSE 1)
    /\ pc = "done" =>
          \A a, b \in ItemsOf(group) : a # b => Cardinality(VisitsOf(a, b)) = 1

\* a finished call on three items of which two pairs were scored and one skipped
C5_Witness ==
    /\ pc = "done" /\ Len(visits) = 3 /\ Len(offers) = 4

\* C6 as claimed: with an unsupported sim_type nothing is computed (no index, no
\* pair test) and the call never returns a result.
C6_UnsupportedFailsBeforeComputation ==
    sim_type \notin SimTypes =>
        /\ pc \in {"start", "raised"}
        /\ item_users = <<>> /\ user_items = <<>> /\ visits = <<>>

\* |U_a n U_b| / |U_a u U_b| over the rows of the group
Jaccard(rows, a, b) ==
    Rat(Cardinality(UsersOf(rows, a) \cap UsersOf(rows, b)),
        Cardinality(UsersOf(rows, a) \cup UsersOf(rows, b)))

CoOccurring(rows, a) == {b \in ItemsOf(rows) \ {a} : Shared(rows, a, b) # {}}

\* u1:{a,b}, u2:{a,b,c}, u3:{b,c} with a, b, c = 1, 2, 3
IsExample(rows) ==
    \E u1, u2, u3 \in Users :
        Range(rows) = {<<u1, 1>>, <<u1, 2>>, <<u2, 1>>, <<u2, 2>>, <<u2, 3>>, <<u3, 2>>, <<u3, 3>>}
        /\ Cardinality({u1, u2, u3}) = 3

JaccardOffers ==
    /\ \A k \in DOMAIN offers :
          offers[k].score = Jaccard(group, offers[k].anchor, offers[k].neighbour)
    /\ pc = "done" =>
          \A a \in ItemsOf(group) :
              Cardinality(CoOccurring(group, a)) <= top_n =>
                  Retained(a) = {<<Jaccard(group, a, b), b>> : b \in CoOccurring(group, a)}

\* C10 as claimed: with jaccard every offered score is |U_i n U_j| / |U_i u U_j|, a
\* finished call leaves an anchor with at most top_n co-occurring neighbours all of
\* them with these scores, and the example yields a -> {b: 1, c: 1/3},
\* b -> {a: 1, c: 2/3}, c -> {b: 2/3, a: 1/3}.
C10_JaccardExampleAsClaimed ==
    sim_type = "jaccard" =>
        /\ JaccardOffers
        /\ (pc = "done" /\ top_n = 2 /\ IsExample(group)) =>
              /\ Retained(1) = {<<<<1, 1, 1>>, 2>>, <<<<1, 3, 1>>, 3>>}
              /\ Retained(2) = {<<<<1, 1, 1>>, 1>>, <<<<2, 3, 1>>, 3>>}
              /\ Retained(3) = {<<<<2, 3, 1>>, 2>>, <<<<1, 3, 1>>, 1>>}

\* C10 amended: the same, and the example yields a -> {b: 2/3, c: 1/3},
\* b -> {a: 2/3, c: 2/3}, c -> {b: 2/3, a: 1/3}: u3 has b, so |U_a u U_b| = 3.
C10_JaccardScores ==
    sim_type = "jaccard" =>
        /\ JaccardOffers
        /\ (pc = "done" /\ top_n = 2 /\ IsExample(group)) =>
              /\ Retained(1) = {<<<<2, 3, 1>>, 2>>, <<<<1, 3, 1>>, 3>>}
              /\ Retained(2) = {<<<<2, 3, 1>>, 1>>, <<<<2, 3, 1>>, 3>>}
              /\ Retained(3) = {<<<<2, 3, 1>>, 2>>, <<<<1, 3, 1>>, 1>>}

\* the example, finished
C10_Witness ==
    sim_type = "jaccard" /\ pc = "done" /\ top_n = 2 /\ IsExample(group) /\ Len(offers) = 6

Groups == groupby(data)
Call(k) == calc_similarity(Groups[k])
Running == phase \in {"map", "write", "finished", "failed"}

\* C7: a frame is written only when every task of the pool has ended without an
\* error, it is the frame of that group's finished result, and it is written once;
\* when the computation of a group raises, the run fails and writes nothing; a run
\* that ends normally has written the frame of every group, in one write each.
C7_WritesOnlyAfterCompletion ==
    /\ output # <<>> => phase \in {"write", "finished"}
    /\ Running =>
          /\ Len(output) <= Len(Groups)
          /\ \A k \in DOMAIN output :
                /\ task[k] = "done"
                /\ ~Call(k).raised
                /\ output[k] = output_result(Call(k).item_pairs)
          /\ output # <<>> => \A k \in DOMAIN task : task[k] = "done"
          /\ (\E k \in DOMAIN Groups : Call(k).raised) =>
                output = <<>> /\ phase \in {"map", "failed"}
          /\ phase = "finished" => Len(output) = Len(Groups)

\* a run of two groups that has ended normally with rows in both frames, after a
\* first run; and a run that has failed with one task done and nothing written
C7_Witness ==
    \/ /\ phase = "finished" /\ Len(output) = 2
       /\ output[1] # <<>> /\ output[2] # <<>> /\ output[1] # output[2]
    \/ /\ phase = "failed" /\ \E k \in DOMAIN task : task[k] = "done"

Triples(frame, anchor) == {r \in Range(frame) : r[1] = anchor}

IdsIn(d) == {r[1] : r \in Range(d)}
PlaceOf(d, g) == 1 + Cardinality({h \in IdsIn(d) : h < g})
GroupAt(d, k) == CHOOSE g \in IdsIn(d) : PlaceOf(d, g) = k
Cells(d, g) == {<<r[2], r[3]>> : r \in {x \in Range(d) : x[1] = g}}
HaveCommonUser(cells, a, b) == \E u \in {c[1] : c \in cells} : {<<u, a>>, <<u, b>>} \subseteq cells

\* C9: every edge (a, b) of a group's result has a and b in that group's rows with
\* a user of that group who has both; a group with the same rows in two runs has
\* the same result, whatever the rows of the other groups; a finished run has one
\* frame per group, each anchor with at most top_n rows in each frame.
C9_GroupsAreIndependent ==
    /\ Running =>
          \A k \in DOMAIN results : \A a \in Keys(results[k]) :
              \A e \in Range(Get(results[k], a)) :
                  HaveCommonUser(Cells(data, GroupAt(data, k)), a, e[2])
    /\ (round = 2 /\ phase = "finished" /\ first_phase = "finished") =>
          \A g \in IdsIn(data) \cap IdsIn(first_data) :
              SelectSeq(data, LAMBDA r : r[1] = g) = SelectSeq(first_data, LAMBDA r : r[1] = g) =>
                  results[PlaceOf(data, g)] = first_results[PlaceOf(first_data, g)]
    /\ phase = "finished" =>
          /\ Len(output) = Cardinality(IdsIn(data))
          /\ \A k \in DOMAIN output : \A a \in 1..RunItems :
                Cardinality(Triples(output[k], a)) <= top_n

\* two finished runs that differ in the rows of one group, with an item that is
\* an anchor in the frames of both groups
C9_Witness ==
    /\ round = 2 /\ phase = "finished" /\ first_phase = "finished"
    /\ data # first_data
    /\ Len(output) = 2 /\ Len(first_output) = 2
    /\ output[1] # first_output[1] /\ output[2] = first_output[2]
    /\ \E a \in 1..RunItems : Triples(output[1], a) # {} /\ Triples(output[2], a) # {}

ItemsOfUser(rows, user) == {r[2] : r \in {x \in Range(rows) : x[1] = user}}

\* C11: every offered score is a value >= 0 with a positive denominator; a
\* jaccard score and a cosine score are <= 1, that is |U_i n U_j| <= |U_i u U_j|
\* and |U_i n U_j|^2 <= |U_i| * |U_j| for the pair that was scored.
C11_ScoresInRange ==
    \A k \in DOMAIN offers :
        LET s == offers[k].score
            Ua == UsersOf(group, offers[k].anchor)
            Ub == UsersOf(group, offers[k].neighbour)
        IN /\ s[1] >= 0 /\ s[2] > 0
           /\ sim_type = "jaccard" =>
                 /\ s[3] = 1 /\ s[1] <= s[2]
                 /\ Cardinality(Ua \cap Ub) <= Cardinality(Ua \cup Ub)
                 /\ ScoreEq(s, <<Cardinality(Ua \cap Ub), Cardinality(Ua \cup Ub), 1>>)
           /\ sim_type = "cosine" =>
                 /\ s[3] = 2 /\ s[1] * s[1] <= s[2]
                 /\ Cardinality(Ua \cap Ub) * Cardinality(Ua \cap Ub)
                        <= Cardinality(Ua) * Cardinality(Ub)
                 /\ ScoreEq(s, <<Cardinality(Ua \cap Ub), Cardinality(Ua) * Cardinality(Ub), 2>>)
           /\ sim_type \in {"swing", "wb_cosine"} => ~ScoreLess(s, Zero)

\* a cosine run that has offered a score of 1 and a score below 1
C11_Witness ==
    /\ sim_type = "cosine"
    /\ \E k, m \in DOMAIN offers :
          /\ ScoreEq(offers[k].score, <<1, 1, 1>>)
          /\ ScoreLess(offers[m].score, <<1, 1, 1>>)

\* the offers of a swing run with alpha = 1 for a pair of items that has exactly
\* two common users, who share exactly one item besides the pair
OneExtraItem(o) ==
    LET cu == Shared(group, o.anchor, o.neighbour)
    IN /\ Cardinality(cu) = 2
       /\ \E u, v \in cu :
             /\ u # v
             /\ Cardinality((ItemsOfUser(group, u) \cap ItemsOfUser(group, v))
                               \ {o.anchor, o.neighbour}) = 1

\* C12 as claimed: with swing and alpha = 1, the one term of a pair of items whose
\* only two common users share exactly one extra item is 1/(1+1) = 1/2.
C12_SwingTermIsHalf ==
    (sim_type = "swing" /\ Alpha = 1) =>
        \A k \in DOMAIN offers : OneExtraItem(offers[k]) => offers[k].score = <<1, 2, 1>>

\* C12 amended: that term is 1/(1+3) = 1/4, since items(u) n items(v) holds the
\* two items of the pair and the extra item.
C12_SwingTermIsQuarter ==
    (sim_type = "swing" /\ Alpha = 1) =>
        \A k \in DOMAIN offers : OneExtraItem(offers[k]) => offers[k].score = <<1, 4, 1>>

\* such a pair has been scored and offered, with the default alpha
C12_Witness ==
    /\ sim_type = "swing" /\ sim_params = NoParams
    /\ \E k \in DOMAIN offers : OneExtraItem(offers[k])

\* the two offers of the k-th scored pair: lines 62-65, then lines 67-70
FirstOffer(k) == offers[2 * k - 1]
SecondOffer(k) == offers[2 * k]
ScoredPairs == 1..(Len(offers) \div 2)

\* C20 as claimed: both sides of a scored pair are offered the same score, and
\* one offer is retained while the other is discarded only when both lists were
\* at capacity top_n when they were offered.
C20_AsymmetryOnlyWhenBothFull ==
    \A k \in ScoredPairs :
        /\ FirstOffer(k).score = SecondOffer(k).score
        /\ FirstOffer(k).kept # SecondOffer(k).kept =>
              FirstOffer(k).full /\ SecondOffer(k).full

\* C20 amended: both sides of a scored pair are offered the same score, each the
\* other item; an offer is discarded only by a list at capacity top_n, so the
\* outcomes differ only when the discarding side was at capacity (the retaining
\* side may be below capacity).
C20_DiscardOnlyWhenFull ==
    \A k \in ScoredPairs :
        /\ FirstOffer(k).score = SecondOffer(k).score
        /\ FirstOffer(k).anchor = SecondOffer(k).neighbour
        /\ FirstOffer(k).neighbour = SecondOffer(k).anchor
        /\ ~FirstOffer(k).kept => FirstOffer(k).full
        /\ ~SecondOffer(k).kept => SecondOffer(k).full
        /\ FirstOffer(k).kept # SecondOffer(k).kept =>
              \/ ~FirstOffer(k).kept /\ FirstOffer(k).full
              \/ ~SecondOffer(k).kept /\ SecondOffer(k).full

\* one side at capacity discards the offer, the other side, below capacity (top_n >= 1), retains it
C20_Witness ==
    /\ top_n >= 1
    /\ \E k \in ScoredPairs :
          \/ ~FirstOffer(k).kept /\ SecondOffer(k).kept /\ ~SecondOffer(k).full
          \/ ~SecondOffer(k).kept /\ FirstOffer(k).kept /\ ~FirstOffer(k).full

EdgesOf(res) ==
    UNION {{<<a, e[2], e[1]>> : e \in Range(Get(res[k], a))} :
              a \in 1..RunItems, k \in DOMAIN res}
EdgeCount(res, row) ==
    Cardinality({<<k, m>> \in (DOMAIN res) \X (1..MaxTopN) :
                    /\ m \in DOMAIN Get(res[k], row[1])
                    /\ Get(res[k], row[1])[m] = <<row[3], row[2]>>})
LineCount(lines, row) == Cardinality({k \in DOMAIN lines : lines[k] = row})

\* C19: when a run has ended normally, the file holds one line (item1, item2,
\* score) for each entry left in an anchor's list of each group's result, as
\* (anchor, neighbour, score), each as often as it is retained, and no other line.
C19_OneRowPerRetainedEdge ==
    phase = "finished" =>
        \A row \in Range(FileLines(output)) \cup EdgesOf(results) :
            LineCount(FileLines(output), row) = EdgeCount(results, row)

WellFormed(rows) == SelectSeq(rows, LAMBDA r : r[1] # NaN /\ r[2] # NaN)

\* C16: a row that lacks its user_id or its item_id adds nothing to the index:
\* the index built is the index of the other rows, no list has the missing value
\* as anchor or neighbour, and a call with a supported type does not raise.
C16_MalformedRowSkipped ==
    pc # "start" =>
        /\ user_items = BuildIndex(WellFormed(group), 1, EmptyIndex).user_items
        /\ item_users = BuildIndex(WellFormed(group), 1, EmptyIndex).item_users
        /\ items = BuildIndex(WellFormed(group), 1, EmptyIndex).items
        /\ \A k \in DOMAIN offers : offers[k].anchor # NaN /\ offers[k].neighbour # NaN
        /\ sim_type \in SimTypes => pc # "raised"

\* the results of index.search are at hand and the neighbour lists are built
Filtered == pc \in {"write", "done"} /\ ids # <<>>
Slots(q) == DOMAIN indices[q]
Emitted(q, s) == <<scores[q][s], IF indices[q][s] = -1 THEN ids[Len(ids)] ELSE ids[indices[q][s]]>>
Passing(q) == {s \in Slots(q) : indices[q][s] # q /\ scores[q][s] >= threshold}
Unit(d) == [dir |-> d, len |-> 1]

\* C13: the list of the anchor at place i holds one entry (score, ids[j]) for each
\* slot (j, score) of its search results with j # i and score >= threshold, in
\* the order of the slots, wherever the slot stands, and nothing else; an anchor
\* without such a slot has no list. For unit vectors x, y, z with inner products
\* 0.9, 0.2, 0.1, IndexFlatIP, threshold 0.5 and top_n 5: x -> (0.9, y),
\* y -> (0.9, x), and nothing for z.
C13_EmitsIffOtherAndAboveThreshold ==
    Filtered =>
        /\ \A q \in DOMAIN ids :
              /\ Len(Get(item_pairs, ids[q])) = Cardinality(Passing(q))
              /\ \A s \in Passing(q) :
                    Get(item_pairs, ids[q])[1 + Cardinality({t \in Passing(q) : t < s})] = Emitted(q, s)
              /\ Passing(q) = {} => ids[q] \notin Keys(item_pairs)
        /\ Keys(item_pairs) \subseteq Range(ids)
        /\ (/\ latest_file = FileOf(<<Unit("x"), Unit("y"), Unit("z")>>)
            /\ index_type = "IndexFlatIP" /\ threshold = 5 /\ top_n = 5) =>
                item_pairs = << <<1, <<<<9, 2>>>>>>, <<2, <<<<9, 1>>>>>> >>

\* the example of three unit vectors is written; and an anchor that is not in
\* the first slot of its own results has a neighbour from the first slot, and
\* a score equal to the threshold is kept
C13_Witness ==
    /\ pc = "done"
    /\ \/ /\ latest_file = FileOf(<<Unit("x"), Unit("y"), Unit("z")>>)
          /\ index_type = "IndexFlatIP" /\ threshold = 5 /\ top_n = 5
          /\ output = << << <<1, 2, 9>>, <<2, 1, 9>> >> >>
       \/ \E q \in DOMAIN ids :
             /\ indices[q][1] # q /\ 1 \in Passing(q)
             /\ \E s \in Passing(q) : scores[q][s] = threshold /\ threshold > 0

\* C14: every anchor of the embedding path has at most top_n neighbours in its
\* list, whatever the catalogue and whatever the search returned.
C14_AtMostTopNNeighbours ==
    Filtered => \A q \in DOMAIN ids : Len(Get(item_pairs, ids[q])) <= top_n

\* C15: a run with an index type that is not supported has not read the snapshot
\* file and has normalized and indexed nothing: it is at its start or has failed,
\* with no ids and no embeddings loaded.
C15_UnsupportedIndexFailsBeforeLoad ==
    index_type \notin IndexTypes =>
        /\ pc \in {"load", "failed"}
        /\ ids = <<>> /\ embeddings = <<>>

\* C17: a run of the embedding path with nothing to process (no snapshot file,
\* or a latest snapshot without rows) does not fail, and once ended has written
\* no row.
C17_EmptyCatalogueIsNoOp ==
    CannotLoad =>
        /\ pc # "failed"
        /\ \A k \in DOMAIN output : output[k] = <<>>

\* the array that load_data returned, read off the snapshot file
Loaded == [k \in DOMAIN latest_file |-> latest_file[k][2]]
AfterLoad == pc \in {"normalize", "index", "search", "filter", "write", "done"}
AfterNormalize == pc \in {"index", "search", "filter", "write", "done"}

C24_NoSelfEdgeInEmbeddingPath ==
    /\ Filtered =>
          \A q \in DOMAIN ids : \A k \in DOMAIN Get(item_pairs, ids[q]) :
              Get(item_pairs, ids[q])[k][2] # ids[q]
    /\ \A f \in DOMAIN output : \A k \in DOMAIN output[f] : output[f][k][1] # output[f][k][2]

\* C23: at every point of calc_similarity no anchor's list has the anchor itself
\* as a neighbour, and no neighbour stands twice in one list.
C23_NoSelfNoDuplicateNeighbour ==
    \A a \in Keys(item_pairs) :
        \A k, m \in DOMAIN Get(item_pairs, a) :
            /\ Get(item_pairs, a)[k][2] # a
            /\ k # m => Get(item_pairs, a)[k][2] # Get(item_pairs, a)[m][2]

\* the call has returned with every item of the group holding two neighbours
C23_Witness ==
    /\ pc = "done" /\ Len(items) = NumItems
    /\ \A a \in ItemsOf(group) : Len(Get(item_pairs, a)) = 2

PairsOf(n) == (n * (n - 1)) \div 2
Overlap(u, v) == ItemsOfUser(group, u) \cap ItemsOfUser(group, v)

\* C25: in a swing run with alpha >= 0, any two distinct common users of a scored
\* pair have an overlap of at least 2 items, the two items of the pair among
\* them, in the rows and in the index the code divides by; the call never raises
\* for a zero divisor, and the score of the pair is at most 1/(alpha + 2) for each
\* of its user pairs.
C25_SwingDenominatorAtLeastAlphaPlus2 ==
    (sim_type = "swing" /\ Alpha >= 0) =>
        /\ pc # "raised"
        /\ \A k \in DOMAIN offers :
              LET a == offers[k].anchor
                  b == offers[k].neighbour
                  cu == Shared(group, a, b)
              IN /\ \A u, v \in cu :
                       u # v =>
                         /\ {a, b} \subseteq Overlap(u, v)
                         /\ Cardinality(Overlap(u, v)) >= 2
                         /\ user_items[u] \cap user_items[v] = Overlap(u, v)
                         /\ Alpha + Cardinality(user_items[u] \cap user_items[v]) >= Alpha + 2
                 /\ ScoreLeq(offers[k].score, Rat(PairsOf(Cardinality(cu)), Alpha + 2))

\* alpha = 0, and a pair with at least two common users whose score is the
\* largest possible, 1/2 for each user pair
C25_Witness ==
    /\ sim_type = "swing" /\ Alpha = 0
    /\ \E k \in DOMAIN offers :
          LET n == Cardinality(Shared(group, offers[k].anchor, offers[k].neighbour))
          IN n >= 2 /\ ScoreEq(offers[k].score, Rat(PairsOf(n), 2))

\* C26 as claimed: in a swing run every offer has a score > 0, and a pair with
\* exactly one common user is offered to neither side.
C26_SwingOffersArePositive ==
    sim_type = "swing" =>
        \A k \in DOMAIN offers :
            /\ ScoreLess(Zero, offers[k].score)
            /\ Cardinality(Shared(group, offers[k].anchor, offers[k].neighbour)) # 1

\* C26 amended: in a swing run every offer has a score >= 0; the score is 0
\* exactly when the pair has one common user only, and such a pair, once visited,
\* is offered to both sides with score 0.
C26_SwingOffersZeroForOneCommonUser ==
    sim_type = "swing" =>
        /\ \A k \in DOMAIN offers :
              /\ ~ScoreLess(offers[k].score, Zero)
              /\ ScoreEq(offers[k].score, Zero) <=>
                    Cardinality(Shared(group, offers[k].anchor, offers[k].neighbour)) = 1
        /\ \A k \in DOMAIN visits :
              (/\ Cardinality(Shared(group, visits[k][1], visits[k][2])) = 1
               /\ (k < Len(visits) \/ pc \in {"pair", "done"})) =>
                  /\ \E m \in DOMAIN offers :
                        /\ offers[m].anchor = visits[k][1] /\ offers[m].neighbour = visits[k][2]
                        /\ ScoreEq(offers[m].score, Zero)
                  /\ \E m \in DOMAIN offers :
                        /\ offers[m].anchor = visits[k][2] /\ offers[m].neighbour = visits[k][1]
                        /\ ScoreEq(offers[m].score, Zero)

\* the call has returned, and an anchor holds a neighbour with score 0
C26_Witness ==
    /\ sim_type = "swing" /\ pc = "done"
    /\ \E a \in Keys(item_pairs) : \E k \in DOMAIN Get(item_pairs, a) :
          ScoreEq(Get(item_pairs, a)[k][1], Zero)

Offered == {Entry(offers[k]) : k \in DOMAIN offers}

\* C22: whatever the order in which offers with pairwise distinct neighbours
\* arrived, the anchor's list holds exactly the min(top_n, k) largest of the k
\* tuples (score, neighbour) offered, in the order of Python tuples: every entry
\* dropped is less than every entry retained, and a dropped entry of the same
\* score as a retained one has the smaller neighbour id. The content is thus a
\* function of the set of offers alone.
C22_ListIsTopNOfTheOfferSet ==
    LET kept == Retained(AnchorItem)
    IN /\ Len(Get(item_pairs, AnchorItem)) = Min(top_n, Len(offers))
       /\ Cardinality(kept) = Len(Get(item_pairs, AnchorItem))
       /\ kept \subseteq Offered
       /\ \A e \in kept : \A d \in Offered \ kept :
             /\ TupleLess(d, e)
             /\ ScoreEq(d[1], e[1]) => d[2] < e[2]

\* every neighbour has been offered, more than top_n >= 1 of them, and an entry
\* was dropped that has the score of a retained one and was offered after it
C22_Witness ==
    /\ top_n >= 1 /\ Len(offers) = MaxNeighbours
    /\ \E k, m \in DOMAIN offers :
          /\ Entry(offers[k]) \in Retained(AnchorItem)
          /\ Entry(offers[m]) \notin Retained(AnchorItem)
          /\ ScoreEq(offers[k].score, offers[m].score)
          /\ m > k

\* The stepwise call and the worker's call build the same lists.
StepsAgreeWithCall ==
    /\ pc = "done" => calc_similarity(group) = [raised |-> FALSE, item_pairs |-> item_pairs]
    /\ pc = "raised" => calc_similarity(group) = [raised |-> TRUE, item_pairs |-> item_pairs]

====
